---------------------------- MODULE Spec2Model ----------------------------
(***************************************************************************)
(* A model of the QM/MM coupling engine of src/gromacs/mdlib/qmmm.cpp:     *)
(* the setup of the QM layers (qmmmAtomIndices, init_QMrec, init_QMMMrec), *)
(* the per-step rebuild of the MM environment (update_QMMMrec) and the     *)
(* energy combination (calculate_QMMM) with its backend dispatch           *)
(* (init_QMroutine, call_QMroutine).                                       *)
(*                                                                         *)
(* C arrays are modelled as sequences: the C entry a[i] is the entry       *)
(* a[i + 1] of the sequence.  Atoms are the global indices 0..natoms-1.    *)
(***************************************************************************)
EXTENDS Integers, Sequences, FiniteSets, TLC

VARIABLES
    build,   \* the QM package the binary was configured with (GMX_QMMM_*)
    cr,      \* t_commrec: whether the run has more than one rank (PAR(cr))
    ir,      \* t_inputrec: cutoff scheme, integrator, QMMM scheme, QM options
    mtop,    \* gmx_mtop_t: atoms, their QM group, atomic numbers, 2-atom vsites
    md,      \* t_mdatoms: chargeA, chargeB (or absent)
    qr,      \* t_QMMMrec (fr->qr): scheme, layer count, layers, MM record
    pc,      \* where the run is: start, ready, updated, oniom (in the layer loop),
             \* done, or stopped by a fatal error (setup_fatal, step_fatal)
    err,     \* the fatal error raised, "none" while the run is alive
    QMMMlist,\* fr->QMMMlist: the neighbor list of the current step
    x,       \* the positions of the current step, one rvec per atom
    ub,      \* the undefined behaviour the last operation ran into, or "none"
    stub,    \* the backend's answers of the current step, per (atoms, method)
    ci,      \* calculate_QMMM: the loop variable i of the multi-layer loop
    QMener,  \* calculate_QMMM: the energy accumulated so far / returned
    log,     \* the backend calls (init and evaluate) of the last operation
    grad,    \* the backend's gradients of the current step, per (atoms, method)
    fMM,     \* forceWithShiftForces->force(): one entry per atom
    fshiftMM \* forceWithShiftForces->shiftForces(): one entry per shift index

vars == <<build, cr, ir, mtop, md, qr, pc, err, QMMMlist, x, ub, stub, ci,
          QMener, log, grad, fMM, fshiftMM>>

(***************************************************************************)
(* Bounds of the model.                                                    *)
(***************************************************************************)
NAtoms == 3
MaxGroups == 2
MaxNri == 2
MaxLayers == 4
MaxLog == 16
MaxList == 2

Atoms == 0 .. (NAtoms - 1)

(***************************************************************************)
(* Sequence helpers.                                                       *)
(***************************************************************************)
RECURSIVE SumSeq(_)
SumSeq(s) == IF s = <<>> THEN 0 ELSE Head(s) + SumSeq(Tail(s))

Range(s) == {s[i] : i \in 1 .. Len(s)}

NoDup(s) == \A i, j \in 1 .. Len(s) : i # j => s[i] # s[j]

Zeros(n) == [i \in 1 .. n |-> 0]

ZeroRvecs(n) == [i \in 1 .. n |-> <<0, 0, 0>>]

(***************************************************************************)
(* Enumerations of md_enums.h that the code compares against.              *)
(***************************************************************************)
eQMmethodAM1 == 0
eQMmethodRHF == 2
eQMmethodCASSCF == 7

eQMMMschemenormal == "normal"
eQMMMschemeoniom == "oniom"

ecutsGROUP == "group"
ecutsVERLET == "verlet"

\* The build configurations: GMX_QMMM is false with "none"; otherwise exactly
\* one of GMX_QMMM_MOPAC, GMX_QMMM_GAMESS, GMX_QMMM_GAUSSIAN, GMX_QMMM_ORCA.
Builds == {"none", "mopac", "gamess", "gaussian", "orca"}
GMX_QMMM == build # "none"
GMX_QMMM_MOPAC == build = "mopac"
GMX_QMMM_GAMESS == build = "gamess"
GMX_QMMM_GAUSSIAN == build = "gaussian"
GMX_QMMM_ORCA == build = "orca"

(***************************************************************************)
(* Topology lookups.                                                       *)
(***************************************************************************)
\* getGroupType(groups, QuantumMechanics, index): groups 0..ngQM-1 are the
\* configured QM groups, group ngQM is the rest of the system.
getGroupType(top, index) == top.QMgroup[index]

\* mtop->atomtypes.atomnumber[mtopGetAtomParameters(mtop, index).type]
atomnumber(top, index) == top.atomnumber[index]

\* md->bQM[index]: the atom is in one of the configured QM groups.
bQM(index) == getGroupType(mtop, index) < ir.ngQM

(***************************************************************************)
(* mk_QMrec, mk_MMrec, mk_QMMMrec: snew gives zeroed records.              *)
(***************************************************************************)
mk_QMrec ==
    [nrQMatoms |-> 0, indexQM |-> <<>>, atomicnumberQM |-> <<>>,
     shiftQM |-> <<>>, xQM |-> <<>>, nelectrons |-> 0, QMcharge |-> 0,
     multiplicity |-> 0, QMmethod |-> 0, QMbasis |-> 0, bSH |-> FALSE]

mk_MMrec ==
    [nrMMatoms |-> 0, indexMM |-> <<>>, shiftMM |-> <<>>, MMcharges |-> <<>>,
     xMM |-> <<>>, scalefactor |-> 0]

NoMM == [nrMMatoms |-> -1]

\* md->chargeB is a null pointer without free-energy perturbation.
NoChargeB == <<>>

mk_QMMMrec ==
    [QMMMscheme |-> eQMMMschemenormal, nrQMlayers |-> 0, qm |-> <<>>, mm |-> NoMM]

(***************************************************************************)
(* init_QMrec: fills the record of QM group grpnr from the atom array.     *)
(***************************************************************************)
init_QMrec_bad(grpnr, qm, atomarray, top, inp) ==
    [qm EXCEPT
        !.nrQMatoms = Len(atomarray),
        !.xQM = ZeroRvecs(Len(atomarray)),
        !.indexQM = atomarray,
        !.shiftQM = Zeros(Len(atomarray)),
        !.atomicnumberQM = [i \in 1 .. Len(atomarray) |-> atomnumber(top, atomarray[i])],
        !.nelectrons = qm.nelectrons
                        + SumSeq([i \in 1 .. Len(atomarray) |-> atomnumber(top, atomarray[i])])
                        + inp.QMcharge[grpnr + 1],
        !.QMcharge = inp.QMcharge[grpnr + 1],
        !.multiplicity = inp.QMmult[grpnr + 1],
        !.QMmethod = inp.QMmethod[grpnr + 1],
        !.QMbasis = inp.QMbasis[grpnr + 1],
        !.bSH = inp.bSH[grpnr + 1]]

init_QMrec(grpnr, qm, atomarray, top, inp) ==
    [qm EXCEPT
        !.nrQMatoms = Len(atomarray),
        !.xQM = ZeroRvecs(Len(atomarray)),
        !.indexQM = atomarray,
        !.shiftQM = Zeros(Len(atomarray)),
        !.atomicnumberQM = [i \in 1 .. Len(atomarray) |-> atomnumber(top, atomarray[i])],
        !.nelectrons = qm.nelectrons
                        + SumSeq([i \in 1 .. Len(atomarray) |-> atomnumber(top, atomarray[i])])
                        - inp.QMcharge[grpnr + 1],
        !.QMcharge = inp.QMcharge[grpnr + 1],
        !.multiplicity = inp.QMmult[grpnr + 1],
        !.QMmethod = inp.QMmethod[grpnr + 1],
        !.QMbasis = inp.QMbasis[grpnr + 1],
        !.bSH = inp.bSH[grpnr + 1]]

(***************************************************************************)
(* qmmmAtomIndices: for each configured group in turn, appends the atoms   *)
(* of the group in increasing global index; in the ONIOM scheme it then    *)
(* goes through the F_VSITE2 interaction list and erases the atom it reads *)
(* as the virtual site if its group equals the group of the two atoms it   *)
(* reads as the constructing atoms.                                        *)
(***************************************************************************)
RECURSIVE AtomsOfGroup(_, _, _)
AtomsOfGroup(top, g, index) ==
    IF index >= top.natoms THEN <<>>
    ELSE (IF getGroupType(top, index) = g THEN <<index>> ELSE <<>>)
         \o AtomsOfGroup(top, g, index + 1)

Erase(s, atom) == SelectSeq(s, LAMBDA a : a # atom)

\* NRAL(F_VSITE2): the atoms of a 2-atom virtual site interaction (the site and
\* its two constructing atoms).  An entry of the interaction list takes
\* nral1 = 1 + NRAL(F_VSITE2) places of iatoms: the interaction type, then the
\* atoms.
NRAL_F_VSITE2 == 3
nral1 == 1 + NRAL_F_VSITE2

\* One entry of ilist.iatoms as the topology stores it.
VsiteEntry(tp, vsite, ai, aj) == <<tp, vsite, ai, aj>>

\* j counts the places of iatoms from 0 as in the code (iatoms[j] is place
\* j + 1 of the sequence); the molecule starts at atom 0 (atomOffset = 0).
RECURSIVE RemoveLinkers(_, _, _)
RemoveLinkers(top, qmmmAtoms, j) ==
    IF j >= Len(top.iatoms) THEN qmmmAtoms
    ELSE LET vsite == top.iatoms[j + 1]
             ai == top.iatoms[j + 2]
             aj == top.iatoms[j + 3]
         IN  RemoveLinkers(top,
                 IF getGroupType(top, vsite) = getGroupType(top, ai)
                    /\ getGroupType(top, vsite) = getGroupType(top, aj)
                 THEN Erase(qmmmAtoms, vsite) ELSE qmmmAtoms,
                 j + nral1)

RECURSIVE qmmmAtomIndicesFrom(_, _, _, _)
qmmmAtomIndicesFrom(inp, top, i, qmmmAtoms) ==
    IF i >= inp.ngQM THEN qmmmAtoms
    ELSE LET added == qmmmAtoms \o AtomsOfGroup(top, i, 0)
             kept == IF inp.QMMMscheme = eQMMMschemeoniom
                     THEN RemoveLinkers(top, added, 0) ELSE added
         IN  qmmmAtomIndicesFrom(inp, top, i + 1, kept)

qmmmAtomIndices(inp, top) == qmmmAtomIndicesFrom(inp, top, 0, <<>>)

(***************************************************************************)
(* removeQmmmAtomCharges.  The topology keeps the charges per atom of the  *)
(* molecule type: the atoms are molecules of molsize atoms each, and the   *)
(* atom with global index a is atom a % molsize of its molecule.           *)
(***************************************************************************)
\* mtopGetMolblockIndex(mtop, globalAtomIndex, &molb, nullptr, &indexInMolecule)
indexInMolecule(top, a) == a % top.molsize

\* The charges of a global atom as the topology has them.
atom_q(top, a) == top.q[indexInMolecule(top, a)]
atom_qB(top, a) == top.qB[indexInMolecule(top, a)]

RECURSIVE removeQmmmAtomCharges_bad(_, _, _)
removeQmmmAtomCharges_bad(top, qmmmAtoms, i) ==
    IF i > Len(qmmmAtoms) THEN top
    ELSE LET at == indexInMolecule(top, qmmmAtoms[i])
         IN  removeQmmmAtomCharges_bad([top EXCEPT !.q[at] = 0], qmmmAtoms, i + 1)

\* i counts the entries of qmmmAtoms from 1.
RECURSIVE removeQmmmAtomCharges(_, _, _)
removeQmmmAtomCharges(top, qmmmAtoms, i) ==
    IF i > Len(qmmmAtoms) THEN top
    ELSE LET at == indexInMolecule(top, qmmmAtoms[i])
         IN  removeQmmmAtomCharges([top EXCEPT !.q[at] = 0, !.qB[at] = 0], qmmmAtoms, i + 1)

(***************************************************************************)
(* The backend families and the dispatch of init_QMroutine and             *)
(* call_QMroutine.  A dispatch is the routine reached, or the fatal error. *)
(***************************************************************************)
Fatal(msg) == [fatal |-> TRUE, what |-> msg]
Routine(name) == [fatal |-> FALSE, what |-> name]

\* The one-layer initialisation of init_QMMMrec and init_QMroutine make the
\* same choice; mm is only handed on to init_gamess.
init_QMroutine(qm) ==
    IF qm.QMmethod < eQMmethodRHF
    THEN IF GMX_QMMM_MOPAC THEN Routine("init_mopac")
         ELSE Fatal("Semi-empirical QM only supported with Mopac.")
    ELSE IF GMX_QMMM_GAMESS THEN Routine("init_gamess")
         ELSE IF GMX_QMMM_GAUSSIAN THEN Routine("init_gaussian")
         ELSE IF GMX_QMMM_ORCA THEN Routine("init_orca")
         ELSE Fatal("Ab-initio calculation only supported with Gamess, Gaussian or ORCA.")

call_QMroutine(qm, mm) ==
    IF qm.QMmethod < eQMmethodRHF /\ mm.nrMMatoms = 0
    THEN IF GMX_QMMM_MOPAC
         THEN IF qm.bSH THEN Routine("call_mopac_SH") ELSE Routine("call_mopac")
         ELSE Fatal("Semi-empirical QM only supported with Mopac.")
    ELSE IF qm.bSH /\ qm.QMmethod = eQMmethodCASSCF
         THEN IF GMX_QMMM_GAUSSIAN THEN Routine("call_gaussian_SH")
              ELSE Fatal("Ab-initio Surface-hopping only supported with Gaussian.")
         ELSE IF GMX_QMMM_GAMESS THEN Routine("call_gamess")
              ELSE IF GMX_QMMM_GAUSSIAN THEN Routine("call_gaussian")
              ELSE IF GMX_QMMM_ORCA THEN Routine("call_orca")
              ELSE Fatal("Ab-initio calculation only supported with Gamess, Gaussian or ORCA.")

\* One entry of the log: the routine and the record it was handed.
Event(kind, routine, qm) ==
    [kind |-> kind, routine |-> routine, indexQM |-> qm.indexQM,
     QMmethod |-> qm.QMmethod, QMbasis |-> qm.QMbasis, nelectrons |-> qm.nelectrons,
     QMcharge |-> qm.QMcharge, atomicnumberQM |-> qm.atomicnumberQM,
     nrQMatoms |-> qm.nrQMatoms, shiftQM |-> qm.shiftQM, xQM |-> qm.xQM]

(***************************************************************************)
(* init_QMMMrec                                                            *)
(***************************************************************************)
NullQM == [nrQMatoms |-> -1]

\* The checks made before the record is touched: the fatal error, or "none".
SetupCheck_bad ==
    IF ~GMX_QMMM THEN "Compiled without QMMM"
    ELSE IF ir.cutoff_scheme # ecutsGROUP
    THEN "QMMM is currently only supported with cutoff-scheme=group"
    ELSE IF ~ir.dynamics THEN "QMMM is only supported with dynamics"
    ELSE "none"

SetupCheck ==
    IF ~GMX_QMMM THEN "Compiled without QMMM"
    ELSE IF ir.cutoff_scheme # ecutsGROUP
    THEN "QMMM is currently only supported with cutoff-scheme=group"
    ELSE IF ~ir.dynamics THEN "QMMM is only supported with dynamics"
    ELSE IF cr.PAR THEN "QM/MM does not work in parallel, use a single rank instead"
    ELSE "none"

\* The layers: in ONIOM one record per group, each made from the whole atom
\* list; otherwise only qm[0], the other pointers of the array stay null.
LayersOf(inp, top, qmmmAtoms) ==
    [i \in 1 .. inp.ngQM |->
        IF inp.QMMMscheme = eQMMMschemeoniom \/ i = 1
        THEN init_QMrec(i - 1, mk_QMrec, qmmmAtoms, top, inp)
        ELSE NullQM]

MMrecOf(inp, top, layers) ==
    [mk_MMrec EXCEPT
        !.scalefactor = inp.scalefactor,
        !.nrMMatoms = IF inp.QMMMscheme # eQMMMschemeoniom
                      THEN top.natoms - layers[1].nrQMatoms ELSE 0]

init_QMMMrec ==
    /\ pc = "start"
    /\ IF SetupCheck # "none"
       THEN /\ pc' = "setup_fatal"
            /\ err' = SetupCheck
            /\ UNCHANGED <<qr, log>>
       ELSE LET qmmmAtoms == qmmmAtomIndices(ir, mtop)
                layers == LayersOf(ir, mtop, qmmmAtoms)
                nrQMlayers == IF ir.QMMMscheme = eQMMMschemeoniom THEN ir.ngQM ELSE 1
                d == init_QMroutine(layers[1])
            IN  /\ qr' = [QMMMscheme |-> ir.QMMMscheme, nrQMlayers |-> nrQMlayers,
                          qm |-> layers, mm |-> MMrecOf(ir, mtop, layers)]
                /\ IF nrQMlayers = 1
                   THEN IF d.fatal
                        THEN pc' = "setup_fatal" /\ err' = d.what /\ log' = <<>>
                        ELSE /\ pc' = "ready" /\ err' = "none"
                             /\ log' = <<Event("init", d.what, layers[1])>>
                   ELSE pc' = "ready" /\ err' = "none" /\ log' = <<>>
    /\ UNCHANGED <<build, cr, ir, mtop, md, QMMMlist, x, ub, stub, ci, QMener, grad, fMM, fshiftMM>>

(***************************************************************************)
(* Periodic shifts (pbcutil/ishift.h, pbcutil/pbc.h).  A shift index       *)
(* encodes an ivec with x in -D_BOX_X..D_BOX_X, y and z likewise.          *)
(***************************************************************************)
D_BOX_X == 2
D_BOX_Y == 1
D_BOX_Z == 1
N_BOX_X == 2 * D_BOX_X + 1
N_BOX_Y == 2 * D_BOX_Y + 1
N_BOX_Z == 2 * D_BOX_Z + 1
N_IVEC == N_BOX_Z * N_BOX_Y * N_BOX_X

\* C's integer division and remainder truncate towards zero.
CDiv(a, b) == IF a >= 0 THEN a \div b ELSE -((-a) \div b)
CMod(a, b) == a - b * CDiv(a, b)

XYZ2IS(px, py, pz) == N_BOX_X * (N_BOX_Y * (pz + D_BOX_Z) + py + D_BOX_Y) + px + D_BOX_X
IS2X(iv) == CMod(iv, N_BOX_X) - D_BOX_X
IS2Y(iv) == CMod(CDiv(iv, N_BOX_X), N_BOX_Y) - D_BOX_Y
IS2Z(iv) == CDiv(iv, N_BOX_X * N_BOX_Y) - D_BOX_Z

\* The box is a cube of edge Box; positions are integer rvecs.
Box == 2

rvec_sub(a, b) == <<a[1] - b[1], a[2] - b[2], a[3] - b[3]>>

\* fr->shift_vec[is]: the translation of shift index is.
shift_vec(is) == <<Box * IS2X(is), Box * IS2Y(is), Box * IS2Z(is)>>

\* pbc_dx_aiuc(pbc, x1, x2, dx): the index of the shift that brings x1 to
\* its image nearest to x2 (rectangular box, one box length at most).
ishiftOf(d) == IF 2 * d > Box THEN -1 ELSE IF 2 * d <= -Box THEN 1 ELSE 0

pbc_dx_aiuc(x1, x2) ==
    LET dx == rvec_sub(x1, x2)
    IN  XYZ2IS(ishiftOf(dx[1]), ishiftOf(dx[2]), ishiftOf(dx[3]))

(***************************************************************************)
(* update_QMMM_coord: the shifted coordinates of the QM and the MM atoms.  *)
(***************************************************************************)
update_QMMM_coord(xs, qm, mm) ==
    [xQM |-> [i \in 1 .. qm.nrQMatoms |->
                 rvec_sub(xs[qm.indexQM[i]], shift_vec(qm.shiftQM[i]))],
     xMM |-> [i \in 1 .. mm.nrMMatoms |->
                 rvec_sub(xs[mm.indexMM[i]], shift_vec(mm.shiftMM[i]))]]

(***************************************************************************)
(* update_QMMMrec, Normal scheme.  The neighbor list is a sequence of      *)
(* rows: row i has the i-particle iinr, the shift of the row and the       *)
(* j-particles jjnr[jindex[i]] .. jjnr[jindex[i+1]-1].                     *)
(***************************************************************************)
qm_i_particlesOf_bad(list, xs) ==
    [i \in 1 .. Len(list) |-> [j |-> list[i].iinr, shift |-> XYZ2IS(0, 0, 0)]]

\* Lines 640-649: the i-particles with their shift relative to row 0.
qm_i_particlesOf(list, xs) ==
    [i \in 1 .. Len(list) |->
        [j |-> list[i].iinr,
         shift |-> IF i = 1 THEN XYZ2IS(0, 0, 0)
                   ELSE pbc_dx_aiuc(xs[list[1].iinr], xs[list[i].iinr])]]

RowShift_bad(list, qmi, i) == list[i].shift

\* Lines 659-662: the shift of the j-particles of row i.
RowShift(list, qmi, i) ==
    XYZ2IS(IS2X(list[i].shift) + IS2X(qmi[i].shift),
           IS2Y(list[i].shift) + IS2Y(qmi[i].shift),
           IS2Z(list[i].shift) + IS2Z(qmi[i].shift))

\* Lines 663-674: the j-particles of rows i.. in the order of the list.
RECURSIVE mm_j_particlesFrom(_, _, _)
mm_j_particlesFrom(list, qmi, i) ==
    IF i > Len(list) THEN <<>>
    ELSE [k \in 1 .. Len(list[i].jjnr) |->
             [j |-> list[i].jjnr[k], shift |-> RowShift(list, qmi, i)]]
         \o mm_j_particlesFrom(list, qmi, i + 1)

\* struct_comp orders by j alone.
struct_comp(a, b) == a.j < b.j

RemoveAt(s, i) == [k \in 1 .. (Len(s) - 1) |-> IF k < i THEN s[k] ELSE s[k + 1]]

\* std::sort with struct_comp: the result is some arrangement of the entries
\* in which no entry precedes one that compares less; entries with equal j
\* may end in any order.
RECURSIVE SortOutcomes(_)
SortOutcomes(s) ==
    IF s = <<>> THEN {<<>>}
    ELSE LET least == {i \in 1 .. Len(s) : \A k \in 1 .. Len(s) : ~struct_comp(s[k], s[i])}
         IN  UNION {{<<s[i]>> \o t : t \in SortOutcomes(RemoveAt(s, i))} : i \in least}

\* Lines 690-697: removal of multiples in place; arr keeps its length, the
\* first n entries are the ones kept.
RECURSIVE DedupQM(_, _, _)
DedupQM(arr, i, n) ==
    IF i > Len(arr) THEN [arr |-> arr, n |-> n]
    ELSE IF i = 1 \/ arr[i].j # arr[i - 1].j
         THEN DedupQM([arr EXCEPT ![n + 1] = arr[i]], i + 1, n + 1)
         ELSE DedupQM(arr, i + 1, n)

\* Lines 706-708: an MM candidate survives if it is not a QM atom and has a
\* charge in one of the charge states.
KeepMM_bad(p) ==
    /\ (md.chargeA[p.j] # 0 \/ (md.chargeB # NoChargeB /\ md.chargeB[p.j] # 0))

KeepMM_anycharge(p) == ~bQM(p.j)

KeepMM(p) ==
    /\ ~bQM(p.j)
    /\ (md.chargeA[p.j] # 0 \/ (md.chargeB # NoChargeB /\ md.chargeB[p.j] # 0))

\* Lines 698-713: removal of multiples and of filtered candidates in place.
RECURSIVE FilterMM_nodedup(_, _, _)
FilterMM_nodedup(arr, i, n) ==
    IF i > Len(arr) THEN SubSeq(arr, 1, n)
    ELSE IF KeepMM(arr[i])
         THEN FilterMM_nodedup([arr EXCEPT ![n + 1] = arr[i]], i + 1, n + 1)
         ELSE FilterMM_nodedup(arr, i + 1, n)

RECURSIVE FilterMM_short(_, _, _)
FilterMM_short(arr, i, n) ==
    IF i > Len(arr) THEN SubSeq(arr, 1, n - 1)
    ELSE IF (i = 1 \/ arr[i].j # arr[i - 1].j) /\ KeepMM(arr[i])
         THEN FilterMM_short([arr EXCEPT ![n + 1] = arr[i]], i + 1, n + 1)
         ELSE FilterMM_short(arr, i + 1, n)

RECURSIVE FilterMM(_, _, _)
FilterMM(arr, i, n) ==
    IF i > Len(arr) THEN SubSeq(arr, 1, n)
    ELSE IF (i = 1 \/ arr[i].j # arr[i - 1].j) /\ KeepMM(arr[i])
         THEN FilterMM([arr EXCEPT ![n + 1] = arr[i]], i + 1, n + 1)
         ELSE FilterMM(arr, i + 1, n)

\* The whole pass over the MM candidates, for one outcome of the sort.
DedupFilterMM(sorted) == FilterMM(sorted, 1, 0)

\* Lines 716-736: the shift of each QM atom.  k counts from 0 as in the code;
\* a read of qm_i_particles[k] with k >= nri is past the end of the array and
\* returns whatever lies there (past).
NoEntry == [j |-> -1, shift |-> 0]

RECURSIVE WalkQM(_, _, _, _, _, _, _)
WalkQM(qm, arr, past, i, k, shift, acc) ==
    IF i > qm.nrQMatoms THEN acc
    ELSE LET entry == IF k < Len(arr) THEN arr[k + 1] ELSE past
             hit == qm.indexQM[i] = entry.j
             sh == IF hit THEN entry.shift ELSE shift
         IN  WalkQM(qm, arr, past, i + 1, IF hit THEN k + 1 ELSE k, sh,
                    [shiftQM |-> Append(acc.shiftQM, sh),
                     reads |-> acc.reads \cup {k}])

ShiftWalk(qm, arr, past) == WalkQM(qm, arr, past, 1, 0, 0, [shiftQM |-> <<>>, reads |-> {}])

\* What a read past the end may return.
PastEntries == {NoEntry} \cup {[j |-> a, shift |-> 0] : a \in Atoms}

MMrecOfStep_bad(mm, kept) ==
    [mm EXCEPT
        !.nrMMatoms = Len(kept),
        !.indexMM = [i \in 1 .. Len(kept) |-> kept[i].j],
        !.shiftMM = [i \in 1 .. Len(kept) |-> kept[i].shift],
        !.MMcharges = [i \in 1 .. Len(kept) |-> md.chargeA[kept[i].j]]]

\* Lines 779-803: the MM record of the step (serial execution; init_QMMMrec
\* lets no run with more than one rank get here).
MMrecOfStep(mm, kept) ==
    [mm EXCEPT
        !.nrMMatoms = Len(kept),
        !.indexMM = [i \in 1 .. Len(kept) |-> kept[i].j],
        !.shiftMM = [i \in 1 .. Len(kept) |-> kept[i].shift],
        !.MMcharges = [i \in 1 .. Len(kept) |-> md.chargeA[kept[i].j] * mm.scalefactor]]

\* The record the Normal branch leaves, from the record rec of the previous
\* step, for one outcome of the two sorts and of a read past the end.
NormalRec(rec, list, xs, sortedQM, sortedMM, past) ==
    LET qm == rec.qm[1]
        dd == DedupQM(sortedQM, 1, 0)
        walk == ShiftWalk(qm, dd.arr, past)
        kept == IF Len(list) > 0 THEN DedupFilterMM(sortedMM) ELSE <<>>
        qm1 == IF Len(list) > 0 THEN [qm EXCEPT !.shiftQM = walk.shiftQM] ELSE qm
        mm1 == MMrecOfStep(rec.mm, kept)
        crd == update_QMMM_coord(xs, qm1, mm1)
    IN  [rec EXCEPT !.qm[1] = [qm1 EXCEPT !.xQM = crd.xQM],
                    !.mm = [mm1 EXCEPT !.xMM = crd.xMM]]

\* The places k of qm_i_particles the walk reads.
WalkReads(rec, sortedQM) == ShiftWalk(rec.qm[1], DedupQM(sortedQM, 1, 0).arr, NoEntry).reads

\* What the reads of the walk past the end may return: nothing to choose
\* when no read is past the end.
PastsOf(rec, list, sortedQM) ==
    IF Len(list) > 0 /\ \E k \in WalkReads(rec, sortedQM) : k >= Len(list)
    THEN PastEntries ELSE {NoEntry}

\* The Normal branch for one outcome of the two sorts and of a read past the end.
UpdateNormal(list, xs, sortedQM, sortedMM, past) ==
    /\ qr' = NormalRec(qr, list, xs, sortedQM, sortedMM, past)
    /\ ub' = IF Len(list) > 0 /\ \E k \in WalkReads(qr, sortedQM) : k >= Len(list)
             THEN "qm_i_particles read past its end" ELSE "none"

(***************************************************************************)
(* update_QMMMrec, ONIOM scheme: per layer, atom 0 has the zero shift and  *)
(* every other atom its shift relative to atom 0.                          *)
(***************************************************************************)
OniomLayer_bad(xs, qm, mm) ==
    LET qm1 == [qm EXCEPT !.shiftQM = [i \in 1 .. qm.nrQMatoms |-> XYZ2IS(0, 0, 0)]]
    IN  [qm1 EXCEPT !.xQM = update_QMMM_coord(xs, qm1, mm).xQM]

OniomLayer(xs, qm, mm) ==
    LET sh == [i \in 1 .. qm.nrQMatoms |->
                  IF i = 1 THEN XYZ2IS(0, 0, 0)
                  ELSE pbc_dx_aiuc(xs[qm.indexQM[1]], xs[qm.indexQM[i]])]
        qm1 == [qm EXCEPT !.shiftQM = sh]
    IN  [qm1 EXCEPT !.xQM = update_QMMM_coord(xs, qm1, mm).xQM]

UpdateOniom(xs) ==
    LET mm1 == [qr.mm EXCEPT !.nrMMatoms = 0]
    IN  /\ qr' = [qr EXCEPT !.mm = mm1,
                            !.qm = [j \in 1 .. qr.nrQMlayers |-> OniomLayer(xs, qr.qm[j], mm1)]]
        \* qm->shiftQM[0] is written also when the layer has no atom
        /\ ub' = IF \E j \in 1 .. qr.nrQMlayers : qr.qm[j].nrQMatoms = 0
                 THEN "shiftQM[0] written in a layer without atoms" ELSE "none"

update_QMMMrec(list, xs) ==
    /\ pc \in {"ready", "done"}
    /\ IF qr.QMMMscheme = eQMMMschemenormal
       THEN LET qmi == qm_i_particlesOf(list, xs)
                mmj == mm_j_particlesFrom(list, qmi, 1)
            IN  \E sortedQM \in SortOutcomes(qmi), sortedMM \in SortOutcomes(mmj) :
                  \E past \in PastsOf(qr, list, sortedQM) :
                      UpdateNormal(list, xs, sortedQM, sortedMM, past)
       ELSE UpdateOniom(xs)
    /\ QMMMlist' = list
    /\ x' = xs
    /\ pc' = "updated"
    /\ UNCHANGED <<build, cr, ir, mtop, md, err, stub, ci, QMener, log, grad, fMM, fshiftMM>>

(***************************************************************************)
(* copy_QMrec and the low-level record of calculate_QMMM (lines 886-902):  *)
(* a copy of layer i+1 whose first nrQMatoms(layer i) atoms, and whose     *)
(* QMcharge, are overwritten with those of layer i.                        *)
(***************************************************************************)
copy_QMrec(qm) ==
    [qm EXCEPT !.xQM = ZeroRvecs(qm.nrQMatoms)]

Overwrite(dst, src, n) ==
    [j \in 1 .. (IF n > Len(dst) THEN n ELSE Len(dst)) |->
        IF j <= n THEN src[j] ELSE dst[j]]

LowLevelRec_bad(qm, next) ==
    LET qm2 == copy_QMrec(next)
    IN  [qm2 EXCEPT
            !.nrQMatoms = qm.nrQMatoms,
            !.indexQM = Overwrite(qm2.indexQM, qm.indexQM, qm.nrQMatoms),
            !.atomicnumberQM = Overwrite(qm2.atomicnumberQM, qm.atomicnumberQM, qm.nrQMatoms),
            !.shiftQM = Overwrite(qm2.shiftQM, qm.shiftQM, qm.nrQMatoms)]

LowLevelRec(qm, next) ==
    LET qm2 == copy_QMrec(next)
    IN  [qm2 EXCEPT
            !.nrQMatoms = qm.nrQMatoms,
            !.xQM = Overwrite(qm2.xQM, qm.xQM, qm.nrQMatoms),
            !.indexQM = Overwrite(qm2.indexQM, qm.indexQM, qm.nrQMatoms),
            !.atomicnumberQM = Overwrite(qm2.atomicnumberQM, qm.atomicnumberQM, qm.nrQMatoms),
            !.shiftQM = Overwrite(qm2.shiftQM, qm.shiftQM, qm.nrQMatoms),
            !.QMcharge = qm.QMcharge]

(***************************************************************************)
(* The backend of a step: the energy it returns for the atoms and the      *)
(* method of the record it is handed.                                      *)
(***************************************************************************)
StubKey(qm) == <<SubSeq(qm.indexQM, 1, qm.nrQMatoms), qm.QMmethod>>

StubKeys ==
    {<<qr.qm[i].indexQM, qr.qm[j].QMmethod>> :
        i \in {k \in 1 .. Len(qr.qm) : qr.qm[k] # NullQM},
        j \in {k \in 1 .. Len(qr.qm) : qr.qm[k] # NullQM}}

Energies == {1, 2, 4}

(***************************************************************************)
(* calculate_QMMM.  The Normal and one-layer case is one step.  The        *)
(* multi-layer loop is taken one iteration at a time: ci is the loop       *)
(* variable i, which the force loop inside the iteration (line 919) also   *)
(* uses and leaves at nrQMatoms, before the loop's own increment.          *)
(***************************************************************************)
Evaluate_bad(qm, mm, reinit, energies) ==
    LET dc == call_QMroutine(qm, mm)
    IN  IF dc.fatal THEN [fatal |-> TRUE, what |-> dc.what, log |-> <<>>, e |-> 0]
        ELSE [fatal |-> FALSE, what |-> "none",
              log |-> <<Event("call", dc.what, qm)>>, e |-> energies[StubKey(qm)]]

\* The calls of one record: its energy, or the fatal error of the dispatch.
\* reinit: init_QMroutine is called first (multi-layer only).
Evaluate(qm, mm, reinit, energies) ==
    LET di == init_QMroutine(qm)
        dc == call_QMroutine(qm, mm)
        ev == IF reinit THEN <<Event("init", di.what, qm)>> ELSE <<>>
    IN  IF reinit /\ di.fatal THEN [fatal |-> TRUE, what |-> di.what, log |-> <<>>, e |-> 0]
        ELSE IF dc.fatal THEN [fatal |-> TRUE, what |-> dc.what, log |-> ev, e |-> 0]
        ELSE [fatal |-> FALSE, what |-> "none",
              log |-> ev \o <<Event("call", dc.what, qm)>>, e |-> energies[StubKey(qm)]]

\* The value of the loop variable after one iteration of the layer loop.
NextLayer(i, qm) == qm.nrQMatoms + 1

\* The energy after the iteration for a layer that is not the last.
Combine(ener, high, low) == (ener + high) - low

\* The energy returned in the Normal and one-layer case.
SingleEnergy_bad(e) == e + e

SingleEnergy(e) == e

\* The force arrays calculate_QMMM is handed: the classical forces of the step.
ForceIn == [a \in Atoms |-> 100 * (a + 1)]
ShiftForceIn == [s \in 0 .. (N_IVEC - 1) |-> 100 * (s + 1)]

\* arr[index[i]] += sign * vals[off + i] for i = i .. n, one entry after the other.
RECURSIVE AddAt(_, _, _, _, _, _, _)
AddAt(arr, index, vals, off, n, sign, i) ==
    IF i > n THEN arr
    ELSE AddAt([arr EXCEPT ![index[i]] = @ + sign * vals[off + i]],
               index, vals, off, n, sign, i + 1)

SingleForces_bad(qm, mm, g, f, fs) ==
    [f |-> AddAt(AddAt(f, qm.indexQM, g.forces, 0, qm.nrQMatoms, -1, 1),
                 mm.indexMM, g.forces, 0, mm.nrMMatoms, -1, 1),
     fs |-> AddAt(AddAt(fs, qm.shiftQM, g.fshift, 0, qm.nrQMatoms, 1, 1),
                  mm.shiftMM, g.fshift, 0, mm.nrMMatoms, 1, 1)]

\* Lines 863-878: the gradient of the one call, to the QM and then the MM atoms.
SingleForces(qm, mm, g, f, fs) ==
    [f |-> AddAt(AddAt(f, qm.indexQM, g.forces, 0, qm.nrQMatoms, -1, 1),
                 mm.indexMM, g.forces, qm.nrQMatoms, mm.nrMMatoms, -1, 1),
     fs |-> AddAt(AddAt(fs, qm.shiftQM, g.fshift, 0, qm.nrQMatoms, 1, 1),
                  mm.shiftMM, g.fshift, qm.nrQMatoms, mm.nrMMatoms, 1, 1)]

Minus(a, b) == [i \in 1 .. Len(a) |-> a[i] - b[i]]

\* Lines 919-926: the difference of the two gradients, to the atoms of the layer.
LayerForces(qm, gh, gl, f, fs) ==
    [f |-> AddAt(f, qm.indexQM, Minus(gh.forces, gl.forces), 0, qm.nrQMatoms, -1, 1),
     fs |-> AddAt(fs, qm.shiftQM, Minus(gh.fshift, gl.fshift), 0, qm.nrQMatoms, 1, 1)]

\* Lines 935-942: the gradient of the last layer.
LastForces(qm, g, f, fs) ==
    [f |-> AddAt(f, qm.indexQM, g.forces, 0, qm.nrQMatoms, -1, 1),
     fs |-> AddAt(fs, qm.shiftQM, g.fshift, 0, qm.nrQMatoms, 1, 1)]

\* What the backend may return as forces and fshift of a call.
GradientsOf(arrays) == [forces : arrays, fshift : arrays]

calculate_QMMM(answers, arrays) ==
    /\ pc = "updated"
    /\ \E energies \in [StubKeys -> answers], gradients \in [StubKeys -> GradientsOf(arrays)] :
        /\ stub' = energies
        /\ grad' = gradients
        /\ IF qr.QMMMscheme = eQMMMschemenormal \/ qr.nrQMlayers = 1
           THEN LET r == Evaluate(qr.qm[1], qr.mm, FALSE, energies)
                    fo == SingleForces(qr.qm[1], qr.mm, gradients[StubKey(qr.qm[1])],
                                       ForceIn, ShiftForceIn)
                IN  /\ log' = r.log
                    /\ err' = r.what
                    /\ pc' = IF r.fatal THEN "step_fatal" ELSE "done"
                    /\ QMener' = IF r.fatal THEN 0 ELSE SingleEnergy(r.e)
                    /\ fMM' = IF r.fatal THEN ForceIn ELSE fo.f
                    /\ fshiftMM' = IF r.fatal THEN ShiftForceIn ELSE fo.fs
                    /\ ci' = 0
           ELSE /\ log' = <<>>
                /\ QMener' = 0
                /\ ci' = 0
                /\ pc' = "oniom"
                /\ err' = "none"
                /\ fMM' = ForceIn
                /\ fshiftMM' = ShiftForceIn
    /\ UNCHANGED <<build, cr, ir, mtop, md, qr, QMMMlist, x, ub>>

\* Lines 884-928: one iteration of the loop over the layers but the last.
oniom_layer ==
    /\ pc = "oniom"
    /\ ci < qr.nrQMlayers - 1
    /\ Len(log) + 4 <= MaxLog
    /\ LET qm == qr.qm[ci + 1]
           qm2 == LowLevelRec(qm, qr.qm[ci + 2])
           high == Evaluate(qm, qr.mm, TRUE, stub)
           low == Evaluate(qm2, qr.mm, TRUE, stub)
           fo == LayerForces(qm, grad[StubKey(qm)], grad[StubKey(qm2)], fMM, fshiftMM)
       IN  /\ ub' = IF qm.nrQMatoms > qr.qm[ci + 2].nrQMatoms
                    THEN "low-level copy written past its end" ELSE ub
           /\ IF high.fatal
              THEN /\ pc' = "step_fatal" /\ err' = high.what
                   /\ log' = log \o high.log
                   /\ UNCHANGED <<QMener, ci, fMM, fshiftMM>>
              ELSE IF low.fatal
              THEN /\ pc' = "step_fatal" /\ err' = low.what
                   /\ log' = log \o high.log \o low.log
                   /\ QMener' = QMener + high.e
                   /\ UNCHANGED <<ci, fMM, fshiftMM>>
              ELSE /\ log' = log \o high.log \o low.log
                   /\ QMener' = Combine(QMener, high.e, low.e)
                   /\ ci' = NextLayer(ci, qm)
                   /\ fMM' = fo.f
                   /\ fshiftMM' = fo.fs
                   /\ UNCHANGED <<pc, err>>
    /\ UNCHANGED <<build, cr, ir, mtop, md, qr, QMMMlist, x, stub, grad>>

\* Lines 929-948: the last layer, and the return.
oniom_last ==
    /\ pc = "oniom"
    /\ ci >= qr.nrQMlayers - 1
    /\ LET qm == qr.qm[qr.nrQMlayers]
           r == Evaluate(qm, qr.mm, TRUE, stub)
           fo == LastForces(qm, grad[StubKey(qm)], fMM, fshiftMM)
       IN  /\ log' = log \o r.log
           /\ err' = r.what
           /\ pc' = IF r.fatal THEN "step_fatal" ELSE "done"
           /\ QMener' = IF r.fatal THEN QMener ELSE QMener + r.e
           /\ fMM' = IF r.fatal THEN fMM ELSE fo.f
           /\ fshiftMM' = IF r.fatal THEN fshiftMM ELSE fo.fs
    /\ UNCHANGED <<build, cr, ir, mtop, md, qr, QMMMlist, x, ub, stub, ci, grad>>

(***************************************************************************)
(* The configurations a run starts from.                                   *)
(***************************************************************************)
\* The F_VSITE2 interaction list: no entry, or one entry of a site and two
\* constructing atoms, with an interaction type of 0 or NAtoms - 1.
VsiteLists ==
    {<<>>} \cup {VsiteEntry(tp, u[1], u[2], u[3]) :
                   tp \in {0, NAtoms - 1},
                   u \in {w \in Atoms \X Atoms \X Atoms :
                             w[1] # w[2] /\ w[1] # w[3] /\ w[2] < w[3]}}

AtomicNumbers == [a \in Atoms |-> 2 ^ a]

Mtops(ng, vsites) ==
    [natoms : {NAtoms}, QMgroup : [Atoms -> 0 .. ng], atomnumber : {AtomicNumbers},
     iatoms : vsites]

Irs(cutoffs, dyns, schemes, ng, charges, methods, shs) ==
    [cutoff_scheme : cutoffs, dynamics : dyns, QMMMscheme : schemes, ngQM : {ng},
     QMcharge : [1 .. ng -> charges], QMmult : {[g \in 1 .. ng |-> 1]},
     QMmethod : [1 .. ng -> methods], QMbasis : {[g \in 1 .. ng |-> g]},
     bSH : [1 .. ng -> shs], scalefactor : {2}]

InitRest ==
    /\ qr = mk_QMMMrec
    /\ pc = "start"
    /\ err = "none"
    /\ QMMMlist = <<>>
    /\ x = [a \in Atoms |-> <<0, 0, 0>>]
    /\ ub = "none"
    /\ stub = <<>>
    /\ ci = 0
    /\ QMener = 0
    /\ log = <<>>
    /\ grad = <<>>
    /\ fMM = ForceIn
    /\ fshiftMM = ShiftForceIn

\* Setup: every build, rank count, cutoff scheme and integrator with a small
\* topology, and every grouping of the atoms with a build that has a backend.
InitSetup ==
    /\ \E ng \in 1 .. MaxGroups :
        \/ /\ build \in Builds
           /\ cr \in [PAR : BOOLEAN]
           /\ ir \in Irs({ecutsGROUP, ecutsVERLET}, BOOLEAN,
                         {eQMMMschemenormal, eQMMMschemeoniom}, ng, {1},
                         {eQMmethodAM1, eQMmethodRHF}, {FALSE})
           /\ mtop \in Mtops(ng, {<<>>})
           /\ \A a \in Atoms : mtop.QMgroup[a] = IF a < ng THEN a ELSE ng
        \/ /\ build \in {"mopac", "orca"}
           /\ cr = [PAR |-> FALSE]
           /\ ir \in Irs({ecutsGROUP}, {TRUE}, {eQMMMschemenormal, eQMMMschemeoniom},
                         ng, {-1, 1}, {eQMmethodAM1}, {FALSE})
           /\ mtop \in Mtops(ng, VsiteLists)
    /\ md = [chargeA |-> [a \in Atoms |-> 1], chargeB |-> NoChargeB]
    /\ InitRest

NextSetup == init_QMMMrec

SpecSetup == InitSetup /\ [][NextSetup]_vars

(***************************************************************************)
(* The removal of the charges: molecules of every size that divides the    *)
(* number of atoms, every combination of zero and nonzero A and B charge   *)
(* of the atoms of the molecule type, and every list of up to MaxList      *)
(* atoms in increasing order.                                              *)
(***************************************************************************)
MolSizes == {m \in 1 .. NAtoms : NAtoms % m = 0}

AtomLists ==
    UNION {{l \in [1 .. n -> Atoms] : \A i \in 1 .. (n - 1) : l[i] < l[i + 1]}
           : n \in 0 .. MaxList}

InitCharges ==
    /\ build = "orca"
    /\ cr = [PAR |-> FALSE]
    /\ ir \in Irs({ecutsGROUP}, {TRUE}, {eQMMMschemenormal}, 1, {0}, {eQMmethodRHF}, {FALSE})
    /\ \E m \in MolSizes :
          mtop \in [natoms : {NAtoms}, QMgroup : {[a \in Atoms |-> 0]},
                    atomnumber : {AtomicNumbers}, iatoms : {<<>>}, molsize : {m},
                    q : [0 .. (m - 1) -> {-1, 0, 1}], qB : [0 .. (m - 1) -> {0, 1}]]
    /\ md = [chargeA |-> [a \in Atoms |-> 1], chargeB |-> NoChargeB]
    /\ InitRest

\* The caller hands removeQmmmAtomCharges a list of atoms.
CallRemoveCharges ==
    /\ pc = "start"
    /\ \E qmmmAtoms \in AtomLists :
        /\ mtop' = removeQmmmAtomCharges(mtop, qmmmAtoms, 1)
        /\ log' = <<[kind |-> "removeQmmmAtomCharges", qmmmAtoms |-> qmmmAtoms]>>
    /\ pc' = "uncharged"
    /\ UNCHANGED <<build, cr, ir, md, qr, err, QMMMlist, x, ub, stub, ci, QMener, grad, fMM, fshiftMM>>

NextCharges == CallRemoveCharges

SpecCharges == InitCharges /\ [][NextCharges]_vars

(***************************************************************************)
(* The MM environment: Normal scheme; no QM atom, one QM atom or all atoms *)
(* QM; atoms of every combination of zero and nonzero A and B charge,      *)
(* with and without a B state; neighbor lists of up to MaxNri rows whose   *)
(* i-particle is the first QM atom, with either shift and any set of       *)
(* j-particles.                                                            *)
(***************************************************************************)
Bit(k, a) == (k \div (2 ^ a)) % 2

RECURSIVE AtomsOfMask(_, _)
AtomsOfMask(k, a) ==
    IF a >= NAtoms THEN <<>>
    ELSE (IF Bit(k, a) = 1 THEN <<a>> ELSE <<>>) \o AtomsOfMask(k, a + 1)

\* Row number c: the shift from the bit above the atoms' bits.
RowOf(iinr, c) ==
    [iinr |-> iinr, shift |-> XYZ2IS(Bit(c, NAtoms), 0, 0), jjnr |-> AtomsOfMask(c, 0)]

RowCodes == 0 .. (2 * (2 ^ NAtoms) - 1)

\* The rows of a list in nondecreasing row number.
CodeLists ==
    UNION {{c \in [1 .. n -> RowCodes] : \A i \in 1 .. (n - 1) : c[i] <= c[i + 1]}
           : n \in 0 .. MaxNri}

NbListsMM(iinr) == {[i \in 1 .. Len(c) |-> RowOf(iinr, c[i])] : c \in CodeLists}

InitMM ==
    /\ build = "orca"
    /\ cr = [PAR |-> FALSE]
    /\ ir \in Irs({ecutsGROUP}, {TRUE}, {eQMMMschemenormal}, 1, {0}, {eQMmethodRHF}, {FALSE})
    /\ mtop \in Mtops(1, {<<>>})
    /\ Cardinality({a \in Atoms : mtop.QMgroup[a] = 0}) \in {0, 1, NAtoms}
    /\ md \in [chargeA : {[a \in Atoms |-> a % 2]},
               chargeB : {NoChargeB, [a \in Atoms |-> (a \div 2) % 2]}]
    /\ InitRest

UpdateMM ==
    /\ pc = "ready"
    /\ \E list \in (IF qr.qm[1].nrQMatoms > 0
                    THEN NbListsMM(qr.qm[1].indexQM[1]) ELSE {<<>>}) :
          update_QMMMrec(list, x)

NextMM == init_QMMMrec \/ UpdateMM

SpecMM == InitMM /\ [][NextMM]_vars

(***************************************************************************)
(* The energy of a step: a build with a backend for every method used,     *)
(* layers of distinct ab-initio methods, any number of layers up to        *)
(* MaxLayers in either scheme, the first k atoms in the QM groups, and     *)
(* every answer of the backend.                                            *)
(***************************************************************************)
MethodOfGroup(g) == eQMmethodRHF + (g - 1)

\* No row, or one row of the first QM atom with every atom as j-particle.
NbListsSmall(qm) ==
    {<<>>} \cup (IF qm.nrQMatoms > 0
                 THEN {<<[iinr |-> qm.indexQM[1], shift |-> XYZ2IS(0, 0, 0),
                          jjnr |-> AtomsOfMask(2 ^ NAtoms - 1, 0)]>>}
                 ELSE {})

UpdateSmall ==
    /\ pc = "ready"
    /\ \E list \in NbListsSmall(qr.qm[1]) : update_QMMMrec(list, x)

InitEnergy ==
    /\ build = "gaussian"
    /\ cr = [PAR |-> FALSE]
    /\ \E ng \in 1 .. MaxLayers, nqm \in 0 .. NAtoms :
        /\ ir \in Irs({ecutsGROUP}, {TRUE}, {eQMMMschemenormal, eQMMMschemeoniom}, ng,
                      {0}, {MethodOfGroup(g) : g \in 1 .. ng}, {FALSE})
        /\ \A g \in 1 .. ng : ir.QMmethod[g] = MethodOfGroup(g)
        /\ mtop \in Mtops(ng, {<<>>})
        /\ \A a \in Atoms : mtop.QMgroup[a] = IF a < nqm THEN a % ng ELSE ng
    /\ md = [chargeA |-> [a \in Atoms |-> 1], chargeB |-> NoChargeB]
    /\ InitRest

\* One answer for the gradients: entry i of forces and of fshift is i.
OneGradient == {[i \in 1 .. NAtoms |-> i]}

CalcAnyEnergy == calculate_QMMM(Energies, OneGradient)

NextEnergy == init_QMMMrec \/ UpdateSmall \/ CalcAnyEnergy \/ oniom_layer \/ oniom_last

SpecEnergy == InitEnergy /\ [][NextEnergy]_vars

(***************************************************************************)
(* The forces of a step: the configurations of the energy, positions that  *)
(* put the atoms in one or in two periodic images, a neighbor list of no   *)
(* row, one row or two rows with different shifts, and for every call of   *)
(* the backend one of two gradients for forces and for fshift.             *)
(***************************************************************************)
\* Entry i of a gradient is i, or 10 * i.
Gradients == {[i \in 1 .. NAtoms |-> i], [i \in 1 .. NAtoms |-> 10 * i]}

\* All atoms at the origin, or atom a at <<a, 0, 0>>.
Positions == {[a \in Atoms |-> <<0, 0, 0>>], [a \in Atoms |-> <<a, 0, 0>>]}

\* Row 1: every atom as j-particle, no shift.  Row 2: every atom but the last,
\* shifted by one box in x.
ForceRows(iinr) ==
    <<RowOf(iinr, 2 ^ NAtoms - 1), RowOf(iinr, 2 ^ NAtoms + 2 ^ (NAtoms - 1) - 1)>>

NbListsForce(qm) ==
    {<<>>} \cup (IF qm.nrQMatoms > 0
                 THEN LET r == ForceRows(qm.indexQM[1])
                      IN  {<<r[1]>>, <<r[2]>>, <<r[1], r[2]>>}
                 ELSE {})

UpdateForce ==
    /\ pc = "ready"
    /\ \E list \in NbListsForce(qr.qm[1]), xs \in Positions : update_QMMMrec(list, xs)

CalcForces == calculate_QMMM({1}, Gradients)

NextForce == init_QMMMrec \/ UpdateForce \/ CalcForces \/ oniom_layer \/ oniom_last

\* The configurations of the energy, with a net charge of g - 1 for group g.
InitForce ==
    /\ build = "gaussian"
    /\ cr = [PAR |-> FALSE]
    /\ \E ng \in 1 .. MaxLayers, nqm \in 0 .. NAtoms :
        /\ ir \in Irs({ecutsGROUP}, {TRUE}, {eQMMMschemenormal, eQMMMschemeoniom}, ng,
                      0 .. (ng - 1), {MethodOfGroup(g) : g \in 1 .. ng}, {FALSE})
        /\ \A g \in 1 .. ng : ir.QMmethod[g] = MethodOfGroup(g) /\ ir.QMcharge[g] = g - 1
        /\ mtop \in Mtops(ng, {<<>>})
        /\ \A a \in Atoms : mtop.QMgroup[a] = IF a < nqm THEN a % ng ELSE ng
    /\ md = [chargeA |-> [a \in Atoms |-> 1], chargeB |-> NoChargeB]
    /\ InitRest

SpecForce == InitForce /\ [][NextForce]_vars

(***************************************************************************)
(* The shifts of the MM atoms: Normal scheme, one group of the first k     *)
(* atoms, the atoms in one or in two periodic images, and neighbor lists   *)
(* of up to MaxNri rows, each of any QM atom with one of three shifts and  *)
(* the last atom and the i-particle itself as j-particles.                 *)
(***************************************************************************)
RowShifts == {XYZ2IS(-1, 0, 0), XYZ2IS(0, 0, 0), XYZ2IS(1, 1, 0)}

ShiftRows(qm) ==
    {[iinr |-> a, shift |-> sh, jjnr |-> <<a, NAtoms - 1>>] :
        a \in Range(qm.indexQM), sh \in RowShifts}

\* Lists whose rows are in nondecreasing order of the i-particle.
NbListsShift(qm) ==
    UNION {{l \in [1 .. n -> ShiftRows(qm)] :
               \A i \in 1 .. (n - 1) : l[i].iinr <= l[i + 1].iinr}
           : n \in 0 .. MaxNri}

InitShift ==
    /\ build = "gaussian"
    /\ cr = [PAR |-> FALSE]
    /\ ir \in Irs({ecutsGROUP}, {TRUE}, {eQMMMschemenormal}, 1, {0}, {eQMmethodRHF}, {FALSE})
    /\ mtop \in Mtops(1, {<<>>})
    /\ \E nqm \in 0 .. NAtoms : \A a \in Atoms : mtop.QMgroup[a] = IF a < nqm THEN 0 ELSE 1
    /\ md = [chargeA |-> [a \in Atoms |-> 1], chargeB |-> NoChargeB]
    /\ InitRest

UpdateShift ==
    /\ pc = "ready"
    /\ \E list \in NbListsShift(qr.qm[1]), xs \in Positions : update_QMMMrec(list, xs)

NextShift == init_QMMMrec \/ UpdateShift

SpecShift == InitShift /\ [][NextShift]_vars

(***************************************************************************)
(* The shifts of the QM atoms with merged groups: Normal scheme, up to     *)
(* MaxGroups groups with every assignment of the atoms to the groups and   *)
(* the rest, the atoms in one or in two periodic images, and neighbor      *)
(* lists of up to MaxNri rows, each of any QM atom with the last atom as   *)
(* j-particle.                                                             *)
(***************************************************************************)
GroupRows(qm) ==
    {[iinr |-> a, shift |-> XYZ2IS(0, 0, 0), jjnr |-> <<NAtoms - 1>>] :
        a \in Range(qm.indexQM)}

NbListsGroups(qm) ==
    UNION {{l \in [1 .. n -> GroupRows(qm)] :
               \A i \in 1 .. (n - 1) : l[i].iinr <= l[i + 1].iinr}
           : n \in 0 .. MaxNri}

InitGroups ==
    /\ build = "gaussian"
    /\ cr = [PAR |-> FALSE]
    /\ \E ng \in 1 .. MaxGroups :
        /\ ir \in Irs({ecutsGROUP}, {TRUE}, {eQMMMschemenormal}, ng, {0},
                      {eQMmethodRHF}, {FALSE})
        /\ mtop \in Mtops(ng, {<<>>})
    /\ md = [chargeA |-> [a \in Atoms |-> 1], chargeB |-> NoChargeB]
    /\ InitRest

UpdateGroups ==
    /\ pc = "ready"
    /\ \E list \in NbListsGroups(qr.qm[1]), xs \in Positions : update_QMMMrec(list, xs)

NextGroups == init_QMMMrec \/ UpdateGroups

SpecGroups == InitGroups /\ [][NextGroups]_vars

(***************************************************************************)
(* The backend dispatch: every build, either scheme, up to MaxGroups       *)
(* groups of one atom each with a semi-empirical, an ab-initio or the      *)
(* CASSCF method, with and without surface hopping, an MM environment      *)
(* with and without atoms, and one answer of the backend.                  *)
(***************************************************************************)
InitDispatch ==
    /\ build \in Builds
    /\ cr = [PAR |-> FALSE]
    /\ \E ng \in 1 .. MaxGroups :
        /\ ir \in Irs({ecutsGROUP}, {TRUE}, {eQMMMschemenormal, eQMMMschemeoniom}, ng,
                      {0}, {eQMmethodAM1, eQMmethodRHF, eQMmethodCASSCF}, BOOLEAN)
        /\ mtop \in Mtops(ng, {<<>>})
        /\ \A a \in Atoms : mtop.QMgroup[a] = IF a < ng THEN a ELSE ng
    /\ md = [chargeA |-> [a \in Atoms |-> 1], chargeB |-> NoChargeB]
    /\ InitRest

CalcOneEnergy == calculate_QMMM({1}, OneGradient)

NextDispatch == init_QMMMrec \/ UpdateSmall \/ CalcOneEnergy \/ oniom_layer \/ oniom_last

SpecDispatch == InitDispatch /\ [][NextDispatch]_vars

(***************************************************************************)
(* Step after step: the configurations of the shifts, and any number of    *)
(* steps, each an update_QMMMrec with any of the neighbor lists of the     *)
(* merged groups and the atoms in one or in two periodic images, followed  *)
(* by calculate_QMMM.                                                      *)
(***************************************************************************)
UpdateSteps ==
    /\ pc \in {"ready", "done"}
    /\ \E list \in NbListsGroups(qr.qm[1]), xs \in Positions : update_QMMMrec(list, xs)

NextSteps == init_QMMMrec \/ UpdateSteps \/ CalcOneEnergy

SpecSteps == InitShift /\ [][NextSteps]_vars

(***************************************************************************)
(* Layers of different sizes: calculate_QMMM is handed a record of up to   *)
(* MaxLayers layers, layer g made by init_QMrec for group g from the first *)
(* n(g) atoms for every choice of the n(g), with a net charge of g - 1 and *)
(* a method of its own per layer.                                          *)
(***************************************************************************)
FirstAtoms(n) == [i \in 1 .. n |-> i - 1]

InitNested ==
    /\ build = "gaussian"
    /\ cr = [PAR |-> FALSE]
    /\ \E ng \in 2 .. MaxLayers :
        /\ ir \in Irs({ecutsGROUP}, {TRUE}, {eQMMMschemeoniom}, ng,
                      0 .. (ng - 1), {MethodOfGroup(g) : g \in 1 .. ng}, {FALSE})
        /\ \A g \in 1 .. ng : ir.QMmethod[g] = MethodOfGroup(g) /\ ir.QMcharge[g] = g - 1
        /\ mtop \in Mtops(ng, {<<>>})
        /\ \A a \in Atoms : mtop.QMgroup[a] = 0
        /\ \E n \in [1 .. ng -> 0 .. NAtoms] :
              qr = [QMMMscheme |-> eQMMMschemeoniom, nrQMlayers |-> ng,
                    qm |-> [g \in 1 .. ng |->
                               init_QMrec(g - 1, mk_QMrec, FirstAtoms(n[g]), mtop, ir)],
                    mm |-> [mk_MMrec EXCEPT !.scalefactor = ir.scalefactor]]
    /\ md = [chargeA |-> [a \in Atoms |-> 1], chargeB |-> NoChargeB]
    /\ pc = "ready"
    /\ err = "none"
    /\ QMMMlist = <<>>
    /\ x = [a \in Atoms |-> <<0, 0, 0>>]
    /\ ub = "none"
    /\ stub = <<>>
    /\ ci = 0
    /\ QMener = 0
    /\ log = <<>>
    /\ grad = <<>>
    /\ fMM = ForceIn
    /\ fshiftMM = ShiftForceIn

UpdateNested ==
    /\ pc = "ready"
    /\ \E xs \in Positions : update_QMMMrec(<<>>, xs)

NextNested == UpdateNested \/ CalcOneEnergy \/ oniom_layer \/ oniom_last

SpecNested == InitNested /\ [][NextNested]_vars

(***************************************************************************)
(* Properties.                                                             *)
(***************************************************************************)
Layers == {i \in 1 .. Len(qr.qm) : qr.qm[i] # NullQM}

MultiLayer == qr.QMMMscheme = eQMMMschemeoniom /\ qr.nrQMlayers >= 2

\* E_high(layer i), E_low(layer i at the theory of layer i+1), layers from 1.
E_high(i) == stub[<<qr.qm[i].indexQM, qr.qm[i].QMmethod>>]
E_low(i) == stub[<<qr.qm[i].indexQM, qr.qm[i + 1].QMmethod>>]

RECURSIVE OniomSum(_)
OniomSum(i) ==
    IF i >= qr.nrQMlayers THEN E_high(qr.nrQMlayers)
    ELSE (E_high(i) - E_low(i)) + OniomSum(i + 1)

\* C1: in multi-layer ONIOM with N >= 2 layers the energy calculate_QMMM
\* returns is the sum over the layers but the last of E_high(layer) -
\* E_low(layer at the next layer's theory), plus the energy of the last
\* layer, for every answer of the backend.
C1_OniomEnergy == (pc = "done" /\ MultiLayer) => QMener = OniomSum(1)

CallsIn(l) == {k \in 1 .. Len(l) : l[k].kind = "call"}

\* C2: in the Normal scheme or with one layer, a step that returns has made
\* exactly one evaluate call of the backend, no other backend call, and
\* returns the energy of that call unchanged.
C2_SingleCallEnergy ==
    (pc = "done" /\ ~MultiLayer) =>
        /\ Len(log) = 1
        /\ Cardinality(CallsIn(log)) = 1
        /\ log[1].indexQM = qr.qm[1].indexQM
        /\ QMener = stub[StubKey(qr.qm[1])]

C2_Witness ==
    /\ pc = "done"
    /\ qr.QMMMscheme = eQMMMschemenormal
    /\ qr.mm.nrMMatoms > 0
    /\ QMener = 4

\* C9: once setup has succeeded no step stops in a fatal error of the
\* backend dispatch: every unsupported combination is found by init_QMMMrec.
C9_NoFatalInStep == pc # "step_fatal"

\* C3: after init_QMMMrec no layer lists an atom twice and no atom is in
\* two layers.
C3_LayersDisjoint ==
    pc = "ready" =>
        /\ \A i \in Layers : NoDup(qr.qm[i].indexQM)
        /\ \A i, k \in Layers : i # k => Range(qr.qm[i].indexQM) \cap Range(qr.qm[k].indexQM) = {}

\* The j-particles of the neighbor list of the step.
JParticles == UNION {Range(QMMMlist[i].jjnr) : i \in 1 .. Len(QMMMlist)}

NoCharge(a) == md.chargeA[a] = 0 /\ (md.chargeB = NoChargeB \/ md.chargeB[a] = 0)

AfterNormalUpdate == pc = "updated" /\ qr.QMMMscheme = eQMMMschemenormal

\* C4: after update_QMMMrec in the Normal scheme no atom flagged as QM is in
\* indexMM, whatever j-particles the neighbor list has.
C4_NoQMInMM ==
    AfterNormalUpdate => \A m \in 1 .. Len(qr.mm.indexMM) : ~bQM(qr.mm.indexMM[m])

C4_Witness ==
    /\ AfterNormalUpdate
    /\ qr.mm.nrMMatoms > 0
    /\ \E a \in JParticles : bQM(a) /\ ~NoCharge(a)

\* C5: after update_QMMMrec in the Normal scheme indexMM has no atom whose A
\* charge is zero and whose B charge is zero or absent.
C5_NoUnchargedInMM ==
    AfterNormalUpdate => \A m \in 1 .. Len(qr.mm.indexMM) : ~NoCharge(qr.mm.indexMM[m])

C5_Witness ==
    /\ AfterNormalUpdate
    /\ qr.mm.nrMMatoms > 0
    /\ \E a \in JParticles : ~bQM(a) /\ NoCharge(a)
    /\ \E a \in JParticles : ~bQM(a) /\ md.chargeA[a] = 0 /\ ~NoCharge(a)

\* C6: after update_QMMMrec in the Normal scheme with a non-empty neighbor
\* list, indexMM holds exactly the j-particles that are not QM and have a
\* nonzero A or B charge, each once, and nrMMatoms is their number.
C6_MMIsFilteredJSet ==
    (AfterNormalUpdate /\ Len(QMMMlist) > 0) =>
        LET want == {a \in JParticles : ~bQM(a) /\ ~NoCharge(a)}
        IN  /\ Range(qr.mm.indexMM) = want
            /\ NoDup(qr.mm.indexMM)
            /\ qr.mm.nrMMatoms = Cardinality(want)
            /\ Len(qr.mm.indexMM) = qr.mm.nrMMatoms

C6_Witness ==
    /\ AfterNormalUpdate
    /\ Len(QMMMlist) = 2
    /\ qr.mm.nrMMatoms = 2
    /\ \E a \in Range(qr.mm.indexMM) : a \in Range(QMMMlist[1].jjnr) \cap Range(QMMMlist[2].jjnr)
    /\ \E a \in JParticles : a \notin Range(qr.mm.indexMM)

\* The (index, shift) pairs the pass over the MM candidates left.
KeptMM == [m \in 1 .. Len(qr.mm.indexMM) |-> [j |-> qr.mm.indexMM[m], shift |-> qr.mm.shiftMM[m]]]

\* C7: the sort, deduplicate and filter pass over the MM candidates gives
\* its own output back when applied to it.
C7_PassIdempotent ==
    AfterNormalUpdate => \A sorted \in SortOutcomes(KeptMM) : DedupFilterMM(sorted) = KeptMM

C7_Witness ==
    /\ AfterNormalUpdate
    /\ Len(KeptMM) >= 2
    /\ Len(QMMMlist) = 2
    /\ QMMMlist[1].shift # QMMMlist[2].shift
    /\ \E a \in Range(qr.mm.indexMM) : a \in Range(QMMMlist[1].jjnr) \cap Range(QMMMlist[2].jjnr)
    /\ \E a \in JParticles : a \notin Range(qr.mm.indexMM)

BadSetup == cr.PAR \/ ir.cutoff_scheme # ecutsGROUP \/ ~ir.dynamics

\* C8: with more than one rank, a cutoff scheme other than group or an
\* integrator that is no dynamics integrator, init_QMMMrec ends in a fatal
\* error and has written no field of the QMMM record.
C8_FatalBeforeWrite ==
    (BadSetup /\ pc # "start") =>
        /\ pc = "setup_fatal"
        /\ err \notin {"none", "Semi-empirical QM only supported with Mopac.",
                       "Ab-initio calculation only supported with Gamess, Gaussian or ORCA."}
        /\ qr = mk_QMMMrec

C8_Witness ==
    /\ pc = "setup_fatal"
    /\ GMX_QMMM
    /\ cr.PAR /\ ir.cutoff_scheme = ecutsGROUP /\ ir.dynamics
    /\ ir.QMMMscheme = eQMMMschemeoniom

\* C10: after init_QMrec a layer's nelectrons is the sum of the atomic
\* numbers of the atoms of its indexQM minus the configured charge of its
\* group, and atomicnumberQM has the atomic number of each indexQM entry, in
\* the same order.
C10_Electrons ==
    pc = "ready" =>
        \A g \in Layers :
            LET qm == qr.qm[g]
            IN  /\ qm.nelectrons
                     = SumSeq([i \in 1 .. Len(qm.indexQM) |-> mtop.atomnumber[qm.indexQM[i]]])
                       - ir.QMcharge[g]
                /\ Len(qm.atomicnumberQM) = Len(qm.indexQM)
                /\ \A i \in 1 .. Len(qm.indexQM) :
                       qm.atomicnumberQM[i] = mtop.atomnumber[qm.indexQM[i]]

C10_Witness ==
    /\ pc = "ready"
    /\ qr.nrQMlayers = 2
    /\ qr.qm[1].nrQMatoms >= 2
    /\ qr.qm[1].nelectrons # qr.qm[2].nelectrons

\* C11: after removeQmmmAtomCharges(mtop, qmmmAtoms) every atom listed in
\* qmmmAtoms has an A charge of zero and a B charge of zero in the topology.
C11_ListedChargesZero ==
    pc = "uncharged" =>
        \A i \in 1 .. Len(log[1].qmmmAtoms) :
            /\ atom_q(mtop, log[1].qmmmAtoms[i]) = 0
            /\ atom_qB(mtop, log[1].qmmmAtoms[i]) = 0

C11_Witness ==
    /\ pc = "uncharged"
    /\ Len(log[1].qmmmAtoms) = 2
    /\ mtop.molsize = NAtoms
    /\ \E a \in Atoms : a \notin Range(log[1].qmmmAtoms) /\ atom_q(mtop, a) # 0 /\ atom_qB(mtop, a) # 0

\* The 2-atom virtual sites of the topology: <<site, constructing atom,
\* constructing atom>> of every entry of the interaction list.
VirtualSites ==
    {<<mtop.iatoms[k + 2], mtop.iatoms[k + 3], mtop.iatoms[k + 4]>> :
        k \in {n \in 0 .. (Len(mtop.iatoms) - 1) : n % nral1 = 0}}

Linkers ==
    {v[1] : v \in {w \in VirtualSites :
                     /\ getGroupType(mtop, w[1]) = getGroupType(mtop, w[2])
                     /\ getGroupType(mtop, w[1]) = getGroupType(mtop, w[3])}}

ListMade == pc # "start" /\ qr.nrQMlayers >= 1

\* C12: the list qmmmAtomIndices returns (the indexQM of the first layer) has,
\* in the ONIOM scheme, no 2-atom virtual site whose group is the group of
\* both of its constructing atoms and every other atom of a configured QM
\* group; in the Normal scheme it has every atom of a configured QM group.
C12_LinkersRemoved ==
    ListMade =>
        LET got == Range(qr.qm[1].indexQM)
            grouped == {a \in Atoms : getGroupType(mtop, a) < ir.ngQM}
        IN  IF ir.QMMMscheme = eQMMMschemeoniom
            THEN got = grouped \ Linkers
            ELSE got = grouped

\* The sum of vals[off + i] over the places i of index that hold key.
SumWhere(index, n, vals, off, key) ==
    SumSeq([i \in 1 .. n |-> IF index[i] = key THEN vals[off + i] ELSE 0])

\* C13: after a Normal or one-layer calculate_QMMM the force of an atom is the
\* force handed in minus the gradient entries i of the places i it has in
\* indexQM and minus the entries nrQMatoms + m of the places m it has in
\* indexMM; a shift force is the one handed in plus the fshift entries of the
\* places that refer to the shift; so an atom or shift that is not referred to
\* keeps its value.
C13_SingleLayerForces ==
    (pc = "done" /\ ~MultiLayer) =>
        LET qm == qr.qm[1]
            mm == qr.mm
            g == grad[StubKey(qm)]
        IN  /\ \A a \in Atoms :
                 fMM[a] = ForceIn[a]
                            - SumWhere(qm.indexQM, qm.nrQMatoms, g.forces, 0, a)
                            - SumWhere(mm.indexMM, mm.nrMMatoms, g.forces, qm.nrQMatoms, a)
            /\ \A sh \in DOMAIN fshiftMM :
                 fshiftMM[sh] = ShiftForceIn[sh]
                                 + SumWhere(qm.shiftQM, qm.nrQMatoms, g.fshift, 0, sh)
                                 + SumWhere(mm.shiftMM, mm.nrMMatoms, g.fshift, qm.nrQMatoms, sh)

C13_Witness ==
    /\ pc = "done"
    /\ qr.QMMMscheme = eQMMMschemenormal
    /\ qr.qm[1].nrQMatoms >= 1
    /\ qr.mm.nrMMatoms >= 1
    /\ \E a \in Atoms : a \notin Range(qr.qm[1].indexQM) \cup Range(qr.mm.indexMM)
    /\ Cardinality(Range(qr.qm[1].shiftQM) \cup Range(qr.mm.shiftMM)) >= 2
    /\ grad[StubKey(qr.qm[1])].forces # grad[StubKey(qr.qm[1])].fshift

\* C14: after update_QMMMrec in the Normal scheme indexMM, shiftMM, MMcharges
\* and xMM have nrMMatoms entries each, and MMcharges[m] is the A charge of
\* atom indexMM[m] times the scale factor of the input record.
C14_ParallelArrays ==
    AfterNormalUpdate =>
        /\ Len(qr.mm.indexMM) = qr.mm.nrMMatoms
        /\ Len(qr.mm.shiftMM) = qr.mm.nrMMatoms
        /\ Len(qr.mm.MMcharges) = qr.mm.nrMMatoms
        /\ Len(qr.mm.xMM) = qr.mm.nrMMatoms
        /\ \A m \in 1 .. qr.mm.nrMMatoms :
               qr.mm.MMcharges[m] = md.chargeA[qr.mm.indexMM[m]] * ir.scalefactor

C14_Witness ==
    /\ AfterNormalUpdate
    /\ qr.mm.nrMMatoms >= 2
    /\ ir.scalefactor # 1
    /\ \E m \in 1 .. qr.mm.nrMMatoms : qr.mm.MMcharges[m] # 0
    /\ \E m \in 1 .. qr.mm.nrMMatoms : qr.mm.MMcharges[m] = 0

\* The shift of the i-particle of row r relative to the i-particle of row 1.
IShift(r) ==
    IF r = 1 THEN XYZ2IS(0, 0, 0) ELSE pbc_dx_aiuc(x[QMMMlist[1].iinr], x[QMMMlist[r].iinr])

\* Shift index sh has the sums of the components of the shifts a and b.
IsSum(sh, a, b) ==
    /\ IS2X(sh) = IS2X(a) + IS2X(b)
    /\ IS2Y(sh) = IS2Y(a) + IS2Y(b)
    /\ IS2Z(sh) = IS2Z(a) + IS2Z(b)

\* The shifts the candidates of atom j have: one per row that lists j.
CandidateShifts(j) ==
    {sh \in 0 .. (N_IVEC - 1) :
        \E r \in 1 .. Len(QMMMlist) :
            j \in Range(QMMMlist[r].jjnr) /\ IsSum(sh, QMMMlist[r].shift, IShift(r))}

\* C15: in the Normal scheme the candidates collected from row r have the
\* shift index whose components are the sums of those of the row's shift and
\* of the shift of the row's i-particle relative to the i-particle of the
\* first row, and the shiftMM of a retained atom is the shift of one of its
\* candidates.
C15_ShiftComposition ==
    AfterNormalUpdate =>
        LET qmi == qm_i_particlesOf(QMMMlist, x)
            cand == mm_j_particlesFrom(QMMMlist, qmi, 1)
        IN  /\ \A k \in 1 .. Len(cand) : cand[k].shift \in CandidateShifts(cand[k].j)
            /\ \A r \in 1 .. Len(QMMMlist) : \A j \in Range(QMMMlist[r].jjnr) :
                   \E k \in 1 .. Len(cand) :
                       cand[k].j = j /\ IsSum(cand[k].shift, QMMMlist[r].shift, IShift(r))
            /\ \A m \in 1 .. qr.mm.nrMMatoms :
                   qr.mm.shiftMM[m] \in CandidateShifts(qr.mm.indexMM[m])

C15_Witness ==
    /\ AfterNormalUpdate
    /\ Len(QMMMlist) = 2
    /\ IShift(2) # XYZ2IS(0, 0, 0)
    /\ QMMMlist[2].shift # XYZ2IS(0, 0, 0)
    /\ qr.mm.nrMMatoms = 1
    /\ Cardinality(CandidateShifts(qr.mm.indexMM[1])) = 2
    /\ IsSum(qr.mm.shiftMM[1], QMMMlist[2].shift, IShift(2))

\* The evaluate calls of the log, each as <<atoms, method>>.
CallsMade ==
    LET calls == SelectSeq(log, LAMBDA e : e.kind = "call")
    IN  [k \in 1 .. Len(calls) |-> <<calls[k].indexQM, calls[k].QMmethod>>]

\* The calls of the layers i .. N: layer i at its own theory and at the theory
\* of layer i + 1, and the last layer once.
RECURSIVE CallsFrom(_)
CallsFrom(i) ==
    IF i >= qr.nrQMlayers
    THEN <<<<qr.qm[i].indexQM, qr.qm[i].QMmethod>>>>
    ELSE <<<<qr.qm[i].indexQM, qr.qm[i].QMmethod>>,
           <<qr.qm[i].indexQM, qr.qm[i + 1].QMmethod>>>> \o CallsFrom(i + 1)

\* C16: a multi-layer calculate_QMMM that returns has evaluated every layer
\* but the last twice, at its own theory and then at the next layer's, in
\* increasing order of the layers, and then the last layer once, and has made
\* no other evaluate call.
C16_EvaluationOrder == (pc = "done" /\ MultiLayer) => CallsMade = CallsFrom(1)

InitsIn(l) == {k \in 1 .. Len(l) : l[k].kind = "init"}

\* C17: in multi-layer ONIOM every evaluate call of calculate_QMMM comes right
\* after an initialize call for the same record (same atoms, same method);
\* with one layer the only initialize call of the run is the one init_QMMMrec
\* makes for the layer, and calculate_QMMM makes none.
C17_InitBeforeEvaluate ==
    /\ (MultiLayer /\ pc \in {"oniom", "done", "step_fatal"}) =>
           \A k \in CallsIn(log) :
               /\ k > 1
               /\ log[k - 1].kind = "init"
               /\ log[k - 1].indexQM = log[k].indexQM
               /\ log[k - 1].QMmethod = log[k].QMmethod
    /\ (qr.nrQMlayers = 1 /\ pc \in {"ready", "updated"}) =>
           /\ Len(log) = 1
           /\ log[1].kind = "init"
           /\ log[1].indexQM = qr.qm[1].indexQM
           /\ log[1].QMmethod = qr.qm[1].QMmethod
    /\ (qr.nrQMlayers = 1 /\ pc \in {"done", "step_fatal"}) => InitsIn(log) = {}

C17_Witness ==
    /\ pc = "done"
    /\ MultiLayer
    /\ qr.nrQMlayers = 2
    /\ qr.qm[1].nrQMatoms >= 1
    /\ Cardinality(CallsIn(log)) = 3
    /\ Cardinality(InitsIn(log)) = 3

\* The gradients of layer i at its own theory and at the theory of layer i + 1.
G_high(i) == grad[<<qr.qm[i].indexQM, qr.qm[i].QMmethod>>]
G_low(i) == grad[<<qr.qm[i].indexQM, qr.qm[i + 1].QMmethod>>]

\* What the layers i .. N take from the force of atom a.
RECURSIVE ForceTaken(_, _)
ForceTaken(i, a) ==
    LET qm == qr.qm[i]
    IN  IF i >= qr.nrQMlayers
        THEN SumWhere(qm.indexQM, qm.nrQMatoms, G_high(i).forces, 0, a)
        ELSE SumWhere(qm.indexQM, qm.nrQMatoms, Minus(G_high(i).forces, G_low(i).forces), 0, a)
             + ForceTaken(i + 1, a)

\* What the layers i .. N add to the shift force at shift index sh.
RECURSIVE ShiftAdded(_, _)
ShiftAdded(i, sh) ==
    LET qm == qr.qm[i]
    IN  IF i >= qr.nrQMlayers
        THEN SumWhere(qm.shiftQM, qm.nrQMatoms, G_high(i).fshift, 0, sh)
        ELSE SumWhere(qm.shiftQM, qm.nrQMatoms, Minus(G_high(i).fshift, G_low(i).fshift), 0, sh)
             + ShiftAdded(i + 1, sh)

\* C18: a multi-layer calculate_QMMM that returns has, for every layer but the
\* last and every atom of the layer, taken the high-level minus the low-level
\* gradient from the force at the atom's index and added the high-level minus
\* the low-level shift term at the atom's shift, and for the last layer taken
\* its gradient and added its shift term.
C18_LayerForces ==
    (pc = "done" /\ MultiLayer) =>
        /\ \A a \in Atoms : fMM[a] = ForceIn[a] - ForceTaken(1, a)
        /\ \A sh \in DOMAIN fshiftMM : fshiftMM[sh] = ShiftForceIn[sh] + ShiftAdded(1, sh)

\* C19: the low-level record an iteration of the layer loop hands to the
\* backend has the atom count, the indices, atomic numbers, shifts and shifted
\* coordinates of its atoms and the net charge of layer i, and the method and
\* basis of layer i + 1; the iteration leaves the records of the layers as
\* they were.
C19_LowLevelRecord ==
    [][(oniom_layer /\ pc' = "oniom") =>
         LET qm == qr.qm[ci + 1]
             next == qr.qm[ci + 2]
             low == log'[Len(log) + 4]
             n == qm.nrQMatoms
         IN  /\ Len(log') = Len(log) + 4
             /\ low.kind = "call"
             /\ low.nrQMatoms = n
             /\ SubSeq(low.indexQM, 1, n) = qm.indexQM
             /\ SubSeq(low.atomicnumberQM, 1, n) = qm.atomicnumberQM
             /\ SubSeq(low.shiftQM, 1, n) = qm.shiftQM
             /\ SubSeq(low.xQM, 1, n) = qm.xQM
             /\ low.QMcharge = qm.QMcharge
             /\ low.QMmethod = next.QMmethod
             /\ low.QMbasis = next.QMbasis
             /\ qr' = qr]_vars

C19_Witness ==
    /\ pc = "done"
    /\ MultiLayer
    /\ Len(log) >= 4
    /\ log[4].kind = "call"
    /\ log[4].nrQMatoms >= 2
    /\ log[4].QMmethod # qr.qm[1].QMmethod
    /\ log[4].QMcharge # qr.qm[2].QMcharge
    /\ log[4].shiftQM[1] # log[4].shiftQM[2]
    /\ log[4].xQM[1] # log[4].xQM[2]

\* The shift of the first pair with atom j in the order of the pass.
FirstShift(pairs, j) ==
    pairs[CHOOSE k \in 1 .. Len(pairs) :
              pairs[k].j = j /\ \A n \in 1 .. (k - 1) : pairs[n].j # j].shift

\* C20: after update_QMMMrec in the Normal scheme with a non-empty list, a
\* retained MM atom has the shift of the first pair collected for it in the
\* pass over the neighbor list, and a QM atom that is an i-particle has the
\* shift of the first row of which it is the i-particle.
C20_FirstPairWins ==
    (AfterNormalUpdate /\ Len(QMMMlist) > 0 /\ ub = "none") =>
        LET qmi == qm_i_particlesOf(QMMMlist, x)
            cand == mm_j_particlesFrom(QMMMlist, qmi, 1)
            qm == qr.qm[1]
        IN  /\ \A m \in 1 .. qr.mm.nrMMatoms :
                   qr.mm.shiftMM[m] = FirstShift(cand, qr.mm.indexMM[m])
            /\ \A i \in 1 .. qm.nrQMatoms :
                   (\E r \in 1 .. Len(qmi) : qmi[r].j = qm.indexQM[i]) =>
                       qm.shiftQM[i] = FirstShift(qmi, qm.indexQM[i])

\* The places of atom a in the indexQM of the first layer.
PlacesQM(a) == {i \in 1 .. qr.qm[1].nrQMatoms : qr.qm[1].indexQM[i] = a}

\* C21 as stated: in the Normal scheme the shift recorded for the i-particle
\* of the first row is the zero shift, and the shift recorded for the
\* i-particle of every other row is its minimum-image shift relative to the
\* i-particle of the first row composed with the shift the list has for the row.
C21_IShiftComposed ==
    (AfterNormalUpdate /\ Len(QMMMlist) > 0) =>
        \A r \in 1 .. Len(QMMMlist) : \A i \in PlacesQM(QMMMlist[r].iinr) :
            IF r = 1 THEN qr.qm[1].shiftQM[i] = XYZ2IS(0, 0, 0)
            ELSE IsSum(qr.qm[1].shiftQM[i], QMMMlist[r].shift, IShift(r))

\* C21 amended: in the Normal scheme the shift recorded for the i-particle of
\* the first row is the zero shift, and the shift recorded for the i-particle
\* of every other row is its minimum-image shift relative to the i-particle of
\* the first row alone; the shift the list has for the row enters the shift of
\* the row's j-particles only.
C21_IShiftRelative ==
    (AfterNormalUpdate /\ Len(QMMMlist) > 0) =>
        \A r \in 1 .. Len(QMMMlist) : \A i \in PlacesQM(QMMMlist[r].iinr) :
            qr.qm[1].shiftQM[i] = IShift(r)

C21_Witness ==
    /\ AfterNormalUpdate
    /\ Len(QMMMlist) = 2
    /\ QMMMlist[1].iinr # QMMMlist[2].iinr
    /\ QMMMlist[2].shift # XYZ2IS(0, 0, 0)
    /\ IShift(2) # XYZ2IS(0, 0, 0)
    /\ PlacesQM(QMMMlist[2].iinr) # {}
    /\ \A i \in PlacesQM(QMMMlist[2].iinr) : qr.qm[1].shiftQM[i] = IShift(2)

\* The atoms that are the i-particle of a row of the list.
IParticles == {QMMMlist[r].iinr : r \in 1 .. Len(QMMMlist)}

\* The shift the deduplicated i-particle list has for i-particle a: all rows
\* of one i-particle have the same shift.
KeptShift(a) == IShift(CHOOSE r \in 1 .. Len(QMMMlist) : QMMMlist[r].iinr = a)

\* The earlier places of indexQM whose atom is an i-particle.
EarlierHits(i) == {n \in 1 .. (i - 1) : qr.qm[1].indexQM[n] \in IParticles}

\* C22: after update_QMMMrec in the Normal scheme with a non-empty list, for
\* every place i of indexQM as setup built it (one or several QM groups merged
\* into the layer): if the atom is an i-particle, shiftQM[i] is the shift the
\* deduplicated i-particle list has for it; otherwise shiftQM[i] is the shift
\* of the nearest earlier place whose atom is an i-particle.
C22_ShiftWalk ==
    (AfterNormalUpdate /\ Len(QMMMlist) > 0 /\ ub = "none") =>
        LET qm == qr.qm[1]
        IN  \A i \in 1 .. qm.nrQMatoms :
                IF qm.indexQM[i] \in IParticles
                THEN qm.shiftQM[i] = KeptShift(qm.indexQM[i])
                ELSE \A n \in EarlierHits(i) :
                         (\A m \in EarlierHits(i) : m <= n) => qm.shiftQM[i] = qm.shiftQM[n]

AfterStep == pc \in {"updated", "oniom", "done", "step_fatal"}

\* C23: in the ONIOM scheme the MM environment has no atom (nrMMatoms = 0)
\* after setup and after every step, and after update_QMMMrec every layer has
\* the zero shift for its atom 0 and for every other atom a the minimum-image
\* shift of atom a relative to atom 0 of the same layer.
C23_OniomShifts ==
    (qr.QMMMscheme = eQMMMschemeoniom /\ pc \notin {"start", "setup_fatal"}) =>
        /\ qr.mm.nrMMatoms = 0
        /\ (AfterStep /\ ub = "none") =>
               \A j \in 1 .. qr.nrQMlayers :
                   LET qm == qr.qm[j]
                   IN  /\ Len(qm.shiftQM) = qm.nrQMatoms
                       /\ \A a \in 1 .. qm.nrQMatoms :
                              qm.shiftQM[a] =
                                  IF a = 1 THEN XYZ2IS(0, 0, 0)
                                  ELSE pbc_dx_aiuc(x[qm.indexQM[1]], x[qm.indexQM[a]])

C23_Witness ==
    /\ qr.QMMMscheme = eQMMMschemeoniom
    /\ pc = "done"
    /\ qr.nrQMlayers = 2
    /\ qr.qm[2].nrQMatoms >= 2
    /\ qr.qm[2].shiftQM[1] = XYZ2IS(0, 0, 0)
    /\ qr.qm[2].shiftQM[2] # XYZ2IS(0, 0, 0)
    /\ Len(QMMMlist) > 0

\* The record as init_QMMMrec leaves it.
FreshRec ==
    LET layers == LayersOf(ir, mtop, qmmmAtomIndices(ir, mtop))
    IN  [QMMMscheme |-> ir.QMMMscheme,
         nrQMlayers |-> IF ir.QMMMscheme = eQMMMschemeoniom THEN ir.ngQM ELSE 1,
         qm |-> layers, mm |-> MMrecOf(ir, mtop, layers)]

\* The records a Normal update_QMMMrec can leave when the previous record is rec.
NormalOutcomes(rec, list, xs) ==
    LET qmi == qm_i_particlesOf(list, xs)
        mmj == mm_j_particlesFrom(list, qmi, 1)
    IN  UNION {{NormalRec(rec, list, xs, sq, sm, past) : past \in PastsOf(rec, list, sq)} :
                  sq \in SortOutcomes(qmi), sm \in SortOutcomes(mmj)}

\* C24: the state a step leaves is a function of the inputs of the step: an
\* update_QMMMrec of the Normal scheme started from whatever shiftQM, indexMM
\* and shiftMM the previous step left ends with a shiftQM, indexMM, shiftMM,
\* MMcharges and shifted coordinates that the same update started from the
\* record of setup can end with, also when the neighbor list has no row.
C24_StepFromInputs ==
    [][(pc' = "updated" /\ qr.QMMMscheme = eQMMMschemenormal) =>
         qr' \in NormalOutcomes(FreshRec, QMMMlist', x')]_vars

Iterations == Cardinality(CallsIn(log)) \div 2

\* C26: calculate_QMMM terminates for every number of layers and every atom
\* count of the layers: while it is in the loop over the layers but the last,
\* it has made at most nrQMlayers - 1 iterations (in a step free of undefined
\* behaviour).
C26_LoopBound == (pc = "oniom" /\ ub = "none") => Iterations <= qr.nrQMlayers - 1

\* C27: in the walk that assigns the shifts of the QM atoms (Normal scheme,
\* a list of at least one row) every read of qm_i_particles[k] has a k smaller
\* than the number of entries the removal of multiples kept, whatever the
\* outcome of the sort.
C27_ReadsInKept ==
    (AfterNormalUpdate /\ Len(QMMMlist) > 0) =>
        \A sq \in SortOutcomes(qm_i_particlesOf(QMMMlist, x)) :
            \A k \in WalkReads(qr, sq) : k < DedupQM(sq, 1, 0).n

\* C28: removeQmmmAtomCharges changes the charges of the listed atoms only:
\* every atom that is not in qmmmAtoms, also one of another molecule of the
\* molecule type of a listed atom, has the A and the B charge it had before.
C28_OtherChargesKept ==
    [][CallRemoveCharges =>
         \A a \in Atoms \ Range(log'[1].qmmmAtoms) :
             /\ atom_q(mtop', a) = atom_q(mtop, a)
             /\ atom_qB(mtop', a) = atom_qB(mtop, a)]_vars

\* The backend family of a routine or of the fatal error of a dispatch.
FamilyOf(what) ==
    IF what \in {"init_mopac", "call_mopac", "call_mopac_SH",
                 "Semi-empirical QM only supported with Mopac."}
    THEN "semi-empirical" ELSE "ab-initio"

\* The family init_QMroutine and init_QMMMrec choose for a record.
InitFamily(qm) == FamilyOf(init_QMroutine(qm).what)

\* C29: the backend family call_QMroutine dispatches a record to is the family
\* the initialisation chooses for the method of the record, whatever the
\* number of MM atoms: every evaluate call of a step is of that family, and so
\* is a dispatch of the one-layer case that ends in a fatal error.
C29_SameFamily ==
    /\ pc \in {"oniom", "done", "step_fatal"} =>
           \A k \in CallsIn(log) : FamilyOf(log[k].routine) = InitFamily(log[k])
    /\ (pc = "step_fatal" /\ ~MultiLayer) => FamilyOf(err) = InitFamily(qr.qm[1])

\* C30: every record handed to the backend, by an initialize or an evaluate
\* call, the low-level copy of a multi-layer step included, has an nelectrons
\* that is the sum of the atomic numbers of its atoms minus its QMcharge (in a
\* run free of undefined behaviour).
C30_ElectronsOfRecords ==
    ub = "none" =>
        \A k \in 1 .. Len(log) :
            log[k].nelectrons
                = SumSeq(SubSeq(log[k].atomicnumberQM, 1, log[k].nrQMatoms)) - log[k].QMcharge

====
